---- MODULE Spec2Model ----
(***************************************************************************)
(* Model of the TeamAssist task and clarification services                 *)
(* (backend/src/services/task.service.ts), their request schemas           *)
(* (backend/src/validation/task.validation.ts) and their controllers       *)
(* (task.controller.ts).                                                   *)
(*                                                                         *)
(* The document store is the state: the task collection, the clarification *)
(* collection and the wall clock.  Every request handler is one action per *)
(* data-store round trip that touches a mutable collection: a handler that *)
(* awaits a read and then a write is two actions, so that other requests   *)
(* may run between them.  Projects and workspace membership are not        *)
(* written by any code of the task service and are held fixed.             *)
(*                                                                         *)
(* The client's EditTaskForm and ClarificationSection are modelled by the  *)
(* requests they send and by the component state `ui`.                     *)
(***************************************************************************)
EXTENDS Integers, Sequences, FiniteSets, TLC

VARIABLES tasks, taskCount, taskWrites, clars, now, req, ui

vars == <<tasks, taskCount, taskWrites, clars, now, req, ui>>

(***************************************************************************)
(* Bounds                                                                  *)
(***************************************************************************)
\* successful task writes (create, update, delete) in one behaviour
MaxTaskWrites == 2
\* responses pushed to one clarification
MaxResponses == 2
\* last value of the wall clock
MaxClock == 1
\* responses one ClarificationSection starts
MaxMutations == 3

(***************************************************************************)
(* Values                                                                  *)
(***************************************************************************)
Undef == "undefined"
Null == "null"
EmptyStr == ""

Workspaces == {"w1", "w2"}
Users == {"u1", "u2", "u3"}
\* ids a request may name as :projectId; "p0" is the id of no project
ProjectIds == {"p1", "p2", "p0"}
\* ids a request may name as :id / :taskId
TaskIds == {1, 2}
\* ids a request may name as :clarificationId
ClarIds == {1}
\* ids of the documents of a store that is listed
ListIds == {1, 2, 3}
Procs == {"a", "b"}

\* ProjectModel: project id -> workspace
projects == [p \in {"p1", "p2"} |-> IF p = "p1" THEN "w1" ELSE "w2"]

\* MemberModel: workspace -> user -> role ("NONE": not a member)
members ==
  [w \in Workspaces |->
     [u \in Users |->
        IF w = "w1"
        THEN (CASE u = "u1" -> "OWNER" [] u = "u2" -> "MEMBER" [] OTHER -> "NONE")
        ELSE (CASE u = "u3" -> "ADMIN" [] u = "u1" -> "MEMBER" [] OTHER -> "NONE")]]

BodyFields == {"status", "title", "description", "priority", "assignedTo", "dueDate"}

EmptyBody == [f \in BodyFields |-> Undef]

\* a request body with the given fields, every other field undefined
Body(defined) ==
  [f \in BodyFields |-> IF f \in DOMAIN defined THEN defined[f] ELSE Undef]

\* a string of a request body: `lead` blanks, then `len` characters that begin
\* and end with a non-blank, then `trail` blanks
Text(lead, len, trail) == [lead |-> lead, len |-> len, trail |-> trail]

NoText == Text(0, 0, 0)

\* String.prototype.length
Length(s) == s.lead + s.len + s.trail

\* String.prototype.trim, applied by z.string().trim() and by trim: true
Trim(s) == Text(0, s.len, 0)

\* an optional array of a query string: absent, or the set of its values
Absent == [given |-> FALSE, values |-> {}]
Given(values) == [given |-> TRUE, values |-> values]

\* filters without any key
NoFilters ==
  [projectId |-> Undef, status |-> Absent, priority |-> Absent,
   assignedTo |-> Absent, keyword |-> Undef, dueDate |-> Undef]

NoPagination == [pageSize |-> 0, pageNumber |-> 0]

\* what a listing returns: the ids of the documents in the order returned
\* and the pagination block
NoRet == [items |-> <<>>, totalCount |-> 0, totalPages |-> 0, skip |-> 0]

NoReq ==
  [op |-> "none", pc |-> "idle", ws |-> "-", project |-> "-", task |-> 0,
   user |-> "-", role |-> "-", body |-> EmptyBody, payload |-> EmptyBody,
   clar |-> 0, text |-> NoText, ts |-> 0, filters |-> NoFilters,
   pagination |-> NoPagination, ret |-> NoRet, result |-> "-"]

\* the clarification cards a ClarificationSection shows
CardIds == {"c1", "c2"}

\* the state of a ClarificationSection after mount: no response in flight,
\* no mutation started, empty drafts
NoUi ==
  [activeResponseId |-> Null, answerDrafts |-> [c \in CardIds |-> EmptyStr],
   inFlight |-> {}, mutations |-> 0]

(***************************************************************************)
(* Helpers of the services                                                 *)
(***************************************************************************)
\* role of the caller, resolved by the controller before the service runs
RoleOf(u, w) == members[w][u]

\* MemberModel.exists({ userId, workspaceId })
IsMember(u, w) == u \in Users /\ members[w][u] # "NONE"

\* fault: the project is looked up but its workspace is not compared
ProjectInWorkspace_exists(pr, w) == pr \in DOMAIN projects

\* !project || project.workspace !== workspaceId   (negated)
ProjectInWorkspace(pr, w) == pr \in DOMAIN projects /\ projects[pr] = w

\* JavaScript truthiness of an optional string
Truthy(x) == x \notin {Undef, Null, EmptyStr}

\* fault: the task is looked up by id alone
verifyTaskBelongsToWorkspace_byId(w, t) == t \in DOMAIN tasks

\* TaskModel.findOne({ _id: taskId, workspace: workspaceId })
verifyTaskBelongsToWorkspace(w, t) ==
  t \in DOMAIN tasks /\ tasks[t].workspace = w

(***************************************************************************)
(* createTaskService                                                       *)
(***************************************************************************)
\* new TaskModel({...}) with the defaults of lines 66-67; the store stamps
\* createdAt, the key the listing sorts by
NewTask(w, pr, u, body) ==
  [workspace |-> w, project |-> pr, createdBy |-> u,
   title |-> body.title, description |-> body.description,
   priority |-> IF Truthy(body.priority) THEN body.priority ELSE "MEDIUM",
   status |-> IF Truthy(body.status) THEN body.status ELSE "TODO",
   assignedTo |-> body.assignedTo, dueDate |-> body.dueDate,
   createdAt |-> now]

\* the outcome of createTaskService before the save
CreateCheck(w, pr, body) ==
  IF ~ProjectInWorkspace(pr, w) THEN "not_found"
  ELSE IF Truthy(body.assignedTo) /\ ~IsMember(body.assignedTo, w)
       THEN "error"
       ELSE "ok"

\* a request as the controller hands it to a service
Request(op, w, pr, t, u, body) ==
  [NoReq EXCEPT !.op = op, !.ws = w, !.project = pr, !.task = t, !.user = u,
                !.role = RoleOf(u, w), !.body = body]

\* fault: the task is saved before the assignee is checked
CreateTask_saveFirst(p, w, pr, u, body) ==
  /\ req[p].pc = "idle"
  /\ IsMember(u, w)
  /\ LET r == Request("create", w, pr, 0, u, body)
         res == CreateCheck(w, pr, body)
     IN IF res # "not_found"
        THEN /\ taskCount < Cardinality(TaskIds)
             /\ taskWrites < MaxTaskWrites
             /\ tasks' = tasks @@ ((taskCount + 1) :> NewTask(w, pr, u, body))
             /\ taskCount' = taskCount + 1
             /\ taskWrites' = taskWrites + 1
             /\ req' = [req EXCEPT ![p] = [r EXCEPT !.task = taskCount + 1,
                                                    !.result = res]]
        ELSE /\ req' = [req EXCEPT ![p] = [r EXCEPT !.result = res]]
             /\ UNCHANGED <<tasks, taskCount, taskWrites>>
  /\ UNCHANGED <<clars, now, ui>>

\* createTaskService: every check, then task.save()
CreateTask(p, w, pr, u, body) ==
  /\ req[p].pc = "idle"
  /\ IsMember(u, w)
  /\ LET r == Request("create", w, pr, 0, u, body)
         res == CreateCheck(w, pr, body)
     IN IF res = "ok"
        THEN /\ taskCount < Cardinality(TaskIds)
             /\ taskWrites < MaxTaskWrites
             /\ tasks' = tasks @@ ((taskCount + 1) :> NewTask(w, pr, u, body))
             /\ taskCount' = taskCount + 1
             /\ taskWrites' = taskWrites + 1
             /\ req' = [req EXCEPT ![p] = [r EXCEPT !.task = taskCount + 1,
                                                    !.result = "ok"]]
        ELSE /\ req' = [req EXCEPT ![p] = [r EXCEPT !.result = res]]
             /\ UNCHANGED <<tasks, taskCount, taskWrites>>
  /\ UNCHANGED <<clars, now, ui>>

(***************************************************************************)
(* updateTaskService                                                       *)
(***************************************************************************)
isOwnerOrAdmin(role) == role = "OWNER" \/ role = "ADMIN"

\* fault: a task without assignee passes as assigned to the caller
isTaskAssignedToUser_unassigned(task, u) ==
  ~Truthy(task.assignedTo) \/ task.assignedTo = u

\* task.assignedTo && task.assignedTo.toString() === userId.toString()
isTaskAssignedToUser(task, u) ==
  Truthy(task.assignedTo) /\ task.assignedTo = u

\* fault: the filter is value != null, which drops null as well
providedEntries_nonNull(body) ==
  {f \in BodyFields : body[f] # Undef /\ body[f] # Null}

\* keys of Object.entries(body) whose value is not undefined
providedEntries(body) == {f \in BodyFields : body[f] # Undef}

invalidFields(body) == {f \in providedEntries(body) : f # "status"}

\* body.assignedTo === undefined || body.assignedTo === "" ? undefined : body.assignedTo
sanitizedAssignee(body) ==
  IF body.assignedTo = Undef \/ body.assignedTo = EmptyStr
  THEN Undef
  ELSE body.assignedTo

\* fault: the branch for the empty string is missing
payloadAssignedTo_emptyIgnored(body) ==
  IF Truthy(sanitizedAssignee(body)) THEN sanitizedAssignee(body)
  ELSE IF body.assignedTo = Null THEN Null
  ELSE Undef

\* the assignedTo entry of updatePayload (Undef: the key is not set).  A key
\* that is present with the value undefined sets nothing, as an absent key.
payloadAssignedTo(body) ==
  IF Truthy(sanitizedAssignee(body)) THEN sanitizedAssignee(body)
  ELSE IF body.assignedTo = Null THEN Null
  ELSE IF body.assignedTo = EmptyStr THEN Null
  ELSE Undef

\* updatePayload as built by lines 141-185 (Undef: the key is not set)
updatePayload(role, body) ==
  [f \in BodyFields |->
     IF f = "status" THEN body.status
     ELSE IF ~isOwnerOrAdmin(role) THEN Undef
     ELSE IF f = "assignedTo" THEN payloadAssignedTo(body)
     ELSE body[f]]

\* Object.keys(updatePayload)
payloadKeys(payload) == {f \in BodyFields : payload[f] # Undef}

\* fault: the task is not compared with the project of the request
taskMissing_byId(pr, t) == ~(t \in DOMAIN tasks)

\* !task || task.project.toString() !== projectId.toString()
taskMissing(pr, t) == ~(t \in DOMAIN tasks /\ tasks[t].project = pr)

\* fault: MemberModel.exists({ userId }) without the workspace
assigneeRejected_anyWorkspace(w, body) ==
  /\ Truthy(sanitizedAssignee(body))
  /\ \A x \in Workspaces : ~IsMember(sanitizedAssignee(body), x)

\* the new assignee is truthy and MemberModel.exists finds no member
assigneeRejected(w, body) ==
  /\ Truthy(sanitizedAssignee(body))
  /\ ~IsMember(sanitizedAssignee(body), w)

\* fault: the empty payload is not rejected
emptyUpdate_never(payload) == FALSE

\* !Object.keys(updatePayload).length
emptyUpdate(payload) == payloadKeys(payload) = {}

\* fault: the empty payload is rejected before the caller is authorized
UpdateCheck_emptyFirst(w, pr, t, u, role, body) ==
  IF ~ProjectInWorkspace(pr, w) THEN "not_found"
  ELSE IF taskMissing(pr, t) THEN "not_found"
  ELSE IF emptyUpdate(updatePayload(role, body)) THEN "bad_request"
  ELSE IF ~isOwnerOrAdmin(role) /\ ~isTaskAssignedToUser(tasks[t], u)
       THEN "unauthorized"
  ELSE IF ~isOwnerOrAdmin(role) /\ invalidFields(body) # {}
       THEN "unauthorized"
  ELSE IF isOwnerOrAdmin(role) /\ assigneeRejected(w, body)
       THEN "bad_request"
  ELSE "ok"

\* the checks of updateTaskService in the order of the code; "ok": the
\* handler goes on to findByIdAndUpdate
UpdateCheck(w, pr, t, u, role, body) ==
  IF ~ProjectInWorkspace(pr, w) THEN "not_found"
  ELSE IF taskMissing(pr, t) THEN "not_found"
  ELSE IF ~isOwnerOrAdmin(role) /\ ~isTaskAssignedToUser(tasks[t], u)
       THEN "unauthorized"
  ELSE IF ~isOwnerOrAdmin(role) /\ invalidFields(body) # {}
       THEN "unauthorized"
  ELSE IF isOwnerOrAdmin(role) /\ assigneeRejected(w, body)
       THEN "bad_request"
  ELSE IF emptyUpdate(updatePayload(role, body)) THEN "bad_request"
  ELSE "ok"

\* fault: the document read is changed in memory and saved whole, so the
\* write carries the values read for the fields the body does not define
UpdateTaskRead_saveCopy(p, w, pr, t, u, body) ==
  /\ req[p].pc = "idle"
  /\ IsMember(u, w)
  /\ LET r == Request("update", w, pr, t, u, body)
         res == UpdateCheck(w, pr, t, u, RoleOf(u, w), body)
     IN IF res = "ok"
        THEN req' = [req EXCEPT ![p] =
                       [r EXCEPT !.pc = "update_write",
                                 !.payload =
                                   [f \in BodyFields |->
                                      IF updatePayload(RoleOf(u, w), body)[f] # Undef
                                      THEN updatePayload(RoleOf(u, w), body)[f]
                                      ELSE tasks[t][f]]]]
        ELSE req' = [req EXCEPT ![p] = [r EXCEPT !.result = res]]
  /\ UNCHANGED <<tasks, taskCount, taskWrites, clars, now, ui>>

\* findById and every check up to the write
UpdateTaskRead(p, w, pr, t, u, body) ==
  /\ req[p].pc = "idle"
  /\ IsMember(u, w)
  /\ LET r == Request("update", w, pr, t, u, body)
         res == UpdateCheck(w, pr, t, u, RoleOf(u, w), body)
     IN IF res = "ok"
        THEN req' = [req EXCEPT ![p] =
                       [r EXCEPT !.pc = "update_write",
                                 !.payload = updatePayload(RoleOf(u, w), body)]]
        ELSE req' = [req EXCEPT ![p] = [r EXCEPT !.result = res]]
  /\ UNCHANGED <<tasks, taskCount, taskWrites, clars, now, ui>>

\* fault: the status of a task that is DONE is kept
ApplyUpdate_doneIsFinal(task, payload) ==
  [f \in DOMAIN task |->
     IF f \in BodyFields /\ payload[f] # Undef
        /\ ~(f = "status" /\ task.status = "DONE")
     THEN payload[f] ELSE task[f]]

\* fault: the payload replaces the document, as findOneAndReplace does: a
\* field of the body that the payload does not set is lost
ApplyUpdate_replace(task, payload) ==
  [f \in DOMAIN task |->
     IF f \in BodyFields THEN payload[f] ELSE task[f]]

\* the document after $set of the keys of the payload
ApplyUpdate(task, payload) ==
  [f \in DOMAIN task |->
     IF f \in BodyFields /\ payload[f] # Undef THEN payload[f] ELSE task[f]]

\* fault: findByIdAndUpdate with upsert: true
UpdateTaskWrite_upsert(p) ==
  /\ req[p].pc = "update_write"
  /\ IF req[p].task \in DOMAIN tasks
     THEN /\ taskWrites < MaxTaskWrites
          /\ tasks' = [tasks EXCEPT ![req[p].task] =
                         ApplyUpdate(@, req[p].payload)]
          /\ taskWrites' = taskWrites + 1
     ELSE /\ tasks' = tasks @@ (req[p].task :>
                                  ApplyUpdate(NewTask(req[p].ws, req[p].project,
                                                      req[p].user, EmptyBody),
                                              req[p].payload))
          /\ UNCHANGED taskWrites
  /\ req' = [req EXCEPT ![p].pc = "idle", ![p].result = "ok"]
  /\ UNCHANGED <<taskCount, clars, now, ui>>

\* TaskModel.findByIdAndUpdate(taskId, updatePayload, { new: true })
UpdateTaskWrite(p) ==
  /\ req[p].pc = "update_write"
  /\ IF req[p].task \in DOMAIN tasks
     THEN /\ taskWrites < MaxTaskWrites
          /\ tasks' = [tasks EXCEPT ![req[p].task] =
                         ApplyUpdate(@, req[p].payload)]
          /\ taskWrites' = taskWrites + 1
          /\ req' = [req EXCEPT ![p].pc = "idle", ![p].result = "ok"]
     ELSE /\ req' = [req EXCEPT ![p].pc = "idle", ![p].result = "bad_request"]
          /\ UNCHANGED <<tasks, taskWrites>>
  /\ UNCHANGED <<taskCount, clars, now, ui>>

(***************************************************************************)
(* getTaskByIdService, deleteTaskService                                   *)
(***************************************************************************)
GetCheck(w, pr, t) ==
  IF ~ProjectInWorkspace(pr, w) THEN "not_found"
  ELSE IF ~(/\ t \in DOMAIN tasks
            /\ tasks[t].workspace = w
            /\ tasks[t].project = pr) THEN "not_found"
  ELSE "ok"

GetTaskById(p, w, pr, t, u) ==
  /\ req[p].pc = "idle"
  /\ IsMember(u, w)
  /\ req' = [req EXCEPT ![p] =
               [Request("get", w, pr, t, u, EmptyBody)
                  EXCEPT !.result = GetCheck(w, pr, t)]]
  /\ UNCHANGED <<tasks, taskCount, taskWrites, clars, now, ui>>

\* the filter of TaskModel.findOneAndDelete({ _id: taskId, workspace })
DeleteMatches(w, t) == t \in DOMAIN tasks /\ tasks[t].workspace = w

DeleteTask(p, w, t, u) ==
  /\ req[p].pc = "idle"
  /\ IsMember(u, w)
  /\ LET r == Request("delete", w, "-", t, u, EmptyBody)
     IN IF DeleteMatches(w, t)
        THEN /\ taskWrites < MaxTaskWrites
             /\ tasks' = [x \in DOMAIN tasks \ {t} |-> tasks[x]]
             /\ taskWrites' = taskWrites + 1
             /\ req' = [req EXCEPT ![p] = [r EXCEPT !.result = "ok"]]
        ELSE /\ req' = [req EXCEPT ![p] = [r EXCEPT !.result = "not_found"]]
             /\ UNCHANGED <<tasks, taskWrites>>
  /\ UNCHANGED <<taskCount, clars, now, ui>>

(***************************************************************************)
(* getAllTasksService                                                      *)
(***************************************************************************)
\* fault: an empty array is put into the query as $in: []
Restricts_given(f) == f.given

\* filters.x && filters.x.length > 0
Restricts(f) == f.given /\ f.values # {}

\* the lower-case form the "i" option compares
Lower(s) == IF s = "T1" THEN "t1" ELSE s

\* the strings a title contains
Infixes(title) ==
  CASE title = "t0" -> {"t", "0", "t0"}
    [] title = "t1" -> {"t", "1", "t1"}
    [] OTHER -> {title}

\* { $regex: keyword, $options: "i" } on a title
RegexMatches(keyword, title) == Lower(keyword) \in Infixes(Lower(title))

\* new Date(string): the instant a date string denotes, named by its
\* date-only form
DateOf(s) == IF s = "2025-01-01T00:00:00.000Z" THEN "2025-01-01" ELSE s

\* the query document of lines 217-245 as a predicate on a stored task
QueryMatches(w, filters, task) ==
  /\ task.workspace = w
  /\ Truthy(filters.projectId) => task.project = filters.projectId
  /\ Restricts(filters.status) => task.status \in filters.status.values
  /\ Restricts(filters.priority) => task.priority \in filters.priority.values
  /\ Restricts(filters.assignedTo)
       => task.assignedTo \in filters.assignedTo.values
  /\ Truthy(filters.keyword) => RegexMatches(filters.keyword, task.title)
  /\ Truthy(filters.dueDate)
       => /\ Truthy(task.dueDate)
          /\ DateOf(task.dueDate) = DateOf(filters.dueDate)

\* fault: sort({ createdAt: 1 })
NewestFirst_ascending(ids, at) ==
  {s \in [1..Cardinality(ids) -> ids] :
     \A i, j \in 1..Cardinality(ids) :
       i < j => s[i] # s[j] /\ at[s[i]] <= at[s[j]]}

\* sort({ createdAt: -1 }): the orders the store may return the documents
\* in; the sort key decides the order of documents of different createdAt
\* and nothing decides the order of documents of equal createdAt
NewestFirst(ids, at) ==
  {s \in [1..Cardinality(ids) -> ids] :
     \A i, j \in 1..Cardinality(ids) :
       i < j => s[i] # s[j] /\ at[s[i]] >= at[s[j]]}

\* skip(skip).limit(limit) of a sorted result
Page(order, skip, limit) ==
  SubSeq(order, skip + 1,
         IF skip + limit < Len(order) THEN skip + limit ELSE Len(order))

\* Math.ceil(a / b) for a >= 0 and b # 0; a negative quotient is rounded
\* towards zero
Ceil(a, b) == IF b > 0 THEN (a + b - 1) \div b ELSE 0 - (a \div (0 - b))

\* the number of documents limit(n) returns at most: a negative limit is the
\* limit of its absolute value
LimitOf(n) == IF n < 0 THEN 0 - n ELSE n

\* getAllTasksService: find and countDocuments of the same query, issued
\* together; one step, as no request writes a task while tasks are listed
GetAllTasks(p, w, u, filters, pagination) ==
  /\ req[p].pc = "idle"
  /\ IsMember(u, w)
  /\ LET matching == {t \in DOMAIN tasks : QueryMatches(w, filters, tasks[t])}
         skip == (pagination.pageNumber - 1) * pagination.pageSize
         totalCount == Cardinality(matching)
     IN IF skip < 0
        THEN \* the store rejects a negative skip and find() throws
             req' = [req EXCEPT ![p] =
                       [Request("list", w, "-", 0, u, EmptyBody)
                          EXCEPT !.filters = filters,
                                 !.pagination = pagination,
                                 !.result = "error"]]
        ELSE
        \E order \in NewestFirst(matching,
                                 [t \in matching |-> tasks[t].createdAt]) :
          req' = [req EXCEPT ![p] =
                    [Request("list", w, "-", 0, u, EmptyBody)
                       EXCEPT !.filters = filters,
                              !.pagination = pagination,
                              !.ret = [items |-> Page(order, skip,
                                                      LimitOf(pagination
                                                                .pageSize)),
                                       totalCount |-> totalCount,
                                       totalPages |->
                                         Ceil(totalCount, pagination.pageSize),
                                       skip |-> skip],
                              !.result = "ok"]]
  /\ UNCHANGED <<tasks, taskCount, taskWrites, clars, now, ui>>

(***************************************************************************)
(* Clarification services                                                  *)
(***************************************************************************)
ClarRequest(op, w, t, c, u, text) ==
  [Request(op, w, "-", t, u, EmptyBody) EXCEPT !.clar = c, !.text = text]

\* getTaskClarificationsService: verifyTaskBelongsToWorkspace
GetClarificationsVerify(p, w, t, u) ==
  /\ req[p].pc = "idle"
  /\ IsMember(u, w)
  /\ LET r == ClarRequest("clar_list", w, t, 0, u, NoText)
     IN IF verifyTaskBelongsToWorkspace(w, t)
        THEN req' = [req EXCEPT ![p] = [r EXCEPT !.pc = "clar_find"]]
        ELSE req' = [req EXCEPT ![p] = [r EXCEPT !.result = "not_found"]]
  /\ UNCHANGED <<tasks, taskCount, taskWrites, clars, now, ui>>

\* the filter { workspace: workspaceId, task: taskId }
ClarificationMatches(r, c) == c.workspace = r.ws /\ c.task = r.task

\* getTaskClarificationsService: TaskClarificationModel.find
GetClarificationsFind(p) ==
  /\ req[p].pc = "clar_find"
  /\ LET matching == {c \in 1..Len(clars) :
                        ClarificationMatches(req[p], clars[c])}
     IN \E order \in NewestFirst(matching,
                                 [c \in matching |-> clars[c].createdAt]) :
          req' = [req EXCEPT ![p].pc = "idle", ![p].ret.items = order,
                             ![p].result = "ok"]
  /\ UNCHANGED <<tasks, taskCount, taskWrites, clars, now, ui>>

\* createTaskClarificationService: verifyTaskBelongsToWorkspace
CreateClarificationVerify(p, w, t, u, question) ==
  /\ req[p].pc = "idle"
  /\ IsMember(u, w)
  /\ LET r == ClarRequest("clar_create", w, t, 0, u, question)
     IN IF verifyTaskBelongsToWorkspace(w, t)
        THEN req' = [req EXCEPT ![p] = [r EXCEPT !.pc = "clar_create"]]
        ELSE req' = [req EXCEPT ![p] = [r EXCEPT !.result = "not_found"]]
  /\ UNCHANGED <<tasks, taskCount, taskWrites, clars, now, ui>>

\* the document of TaskClarificationModel.create: question trim: true,
\* responses default [], timestamps: true
NewClarification(r) ==
  [workspace |-> r.ws, task |-> r.task, askedBy |-> r.user,
   question |-> Trim(r.text), responses |-> <<>>, createdAt |-> now]

\* createTaskClarificationService: TaskClarificationModel.create
CreateClarificationWrite(p) ==
  /\ req[p].pc = "clar_create"
  /\ Len(clars) < Cardinality(ClarIds)
  /\ clars' = Append(clars, NewClarification(req[p]))
  /\ req' = [req EXCEPT ![p].pc = "idle", ![p].clar = Len(clars) + 1,
                        ![p].result = "ok"]
  /\ UNCHANGED <<tasks, taskCount, taskWrites, now, ui>>

\* respondToTaskClarificationService: verifyTaskBelongsToWorkspace, then the
\* update document is built with createdAt: new Date() and the query is issued.
\* The request names a stored clarification: the store assigns the ids, and a
\* client learns an id only from a stored clarification.
RespondVerify(p, w, t, c, u, message) ==
  /\ req[p].pc = "idle"
  /\ IsMember(u, w)
  /\ c \in 1..Len(clars)
  /\ LET r == ClarRequest("clar_respond", w, t, c, u, message)
     IN IF verifyTaskBelongsToWorkspace(w, t)
        THEN req' = [req EXCEPT ![p] = [r EXCEPT !.pc = "clar_push",
                                                 !.ts = now]]
        ELSE req' = [req EXCEPT ![p] = [r EXCEPT !.result = "not_found"]]
  /\ UNCHANGED <<tasks, taskCount, taskWrites, clars, now, ui>>

\* the filter { _id: clarificationId, workspace, task } of findOneAndUpdate
RespondMatches(r) ==
  /\ r.clar \in 1..Len(clars)
  /\ clars[r.clar].workspace = r.ws
  /\ clars[r.clar].task = r.task

\* fault: $set of the responses array in place of $push
PushResponse_replace(responses, r) ==
  <<[message |-> Trim(r.text), respondedBy |-> r.user, createdAt |-> r.ts]>>

\* the responses array after $push (message trim: true)
PushResponse(responses, r) ==
  Append(responses,
         [message |-> Trim(r.text), respondedBy |-> r.user,
          createdAt |-> r.ts])

\* respondToTaskClarificationService: the store applies findOneAndUpdate
RespondPush(p) ==
  /\ req[p].pc = "clar_push"
  /\ IF RespondMatches(req[p])
     THEN /\ Len(clars[req[p].clar].responses) < MaxResponses
          /\ clars' = [clars EXCEPT ![req[p].clar].responses =
                         PushResponse(@, req[p])]
          /\ req' = [req EXCEPT ![p].pc = "idle", ![p].result = "ok"]
     ELSE /\ req' = [req EXCEPT ![p].pc = "idle", ![p].result = "not_found"]
          /\ UNCHANGED clars
  /\ UNCHANGED <<tasks, taskCount, taskWrites, now, ui>>

\* the wall clock read by new Date()
Tick ==
  /\ now < MaxClock
  /\ now' = now + 1
  /\ UNCHANGED <<tasks, taskCount, taskWrites, clars, req, ui>>

(***************************************************************************)
(* Controllers (task.controller.ts): the body is parsed, the role of the   *)
(* caller is resolved and checked, then the service runs                   *)
(***************************************************************************)
\* the permissions of role.enum
Permissions ==
  {"CREATE_TASK", "EDIT_TASK", "DELETE_TASK", "VIEW_ONLY",
   "MANAGE_WORKSPACE_SETTINGS"}

\* the static permission table: role -> allowed actions
RolePermissions ==
  [r \in {"OWNER", "ADMIN", "MEMBER"} |->
     IF r = "MEMBER" THEN {"VIEW_ONLY", "CREATE_TASK", "EDIT_TASK"}
     ELSE Permissions]

\* roleGuard(role, requiredPermissions): every required permission is held
roleGuard(role, required) ==
  role \in DOMAIN RolePermissions /\ required \subseteq RolePermissions[role]

\* getMemberRoleInWorkspace resolves a role for a member of the workspace
\* and throws for anyone else
getMemberRoleInWorkspace(u, w) == IsMember(u, w)

\* fault: every endpoint asks for the permission of the read endpoints
EndpointPermission_viewOnly(op) == "VIEW_ONLY"

\* the permission each controller hands to roleGuard
EndpointPermission(op) ==
  CASE op = "create" -> "CREATE_TASK"
    [] op = "update" -> "EDIT_TASK"
    [] op = "delete" -> "DELETE_TASK"
    [] op = "clar_respond" -> "MANAGE_WORKSPACE_SETTINGS"
    [] OTHER -> "VIEW_ONLY"

\* the values of TaskStatusEnum and TaskPriorityEnum
TaskStatusEnum == {"TODO", "IN_PROGRESS", "DONE"}
TaskPriorityEnum == {"LOW", "MEDIUM", "HIGH"}

\* titleSchema: a string that is not empty after trim
titleSchema(x) == x \notin {Undef, Null, EmptyStr}

\* assignedToSchema: absent, null, or a string that is not empty after trim
assignedToSchema(x) == x # EmptyStr

\* createTaskSchema: title, priority and status are required
createTaskSchema(body) ==
  /\ titleSchema(body.title)
  /\ body.priority \in TaskPriorityEnum
  /\ body.status \in TaskStatusEnum
  /\ assignedToSchema(body.assignedTo)

\* updateTaskSchema: the same object schema, partial()
updateTaskSchema(body) ==
  /\ body.title = Undef \/ titleSchema(body.title)
  /\ body.priority = Undef \/ body.priority \in TaskPriorityEnum
  /\ body.status = Undef \/ body.status \in TaskStatusEnum
  /\ assignedToSchema(body.assignedTo)

\* bounds of the question and of the response message
QuestionMin == 5
QuestionMax == 1000
MessageMin == 1
MessageMax == 1000

\* fault: the length is checked before the trim
createClarificationSchema_untrimmed(question) ==
  Length(question) >= QuestionMin /\ Length(question) <= QuestionMax

\* createClarificationSchema: z.string().trim().min(5).max(1000)
createClarificationSchema(question) ==
  Length(Trim(question)) >= QuestionMin /\ Length(Trim(question)) <= QuestionMax

\* respondClarificationSchema: z.string().trim().min(1).max(1000)
respondClarificationSchema(message) ==
  Length(Trim(message)) >= MessageMin /\ Length(Trim(message)) <= MessageMax

\* a request answered by the controller: no service runs
Refuse(p, r, res) ==
  /\ req[p].pc = "idle"
  /\ req' = [req EXCEPT ![p] = [r EXCEPT !.result = res]]
  /\ UNCHANGED <<tasks, taskCount, taskWrites, clars, now, ui>>

\* the head of every controller: schema.parse of the body (a ZodError is
\* answered as a validation failure), getMemberRoleInWorkspace, roleGuard
Controller(p, r, valid, Service) ==
  IF ~valid THEN Refuse(p, r, "validation")
  ELSE IF ~getMemberRoleInWorkspace(r.user, r.ws)
       THEN Refuse(p, r, "unauthorized")
  ELSE IF ~roleGuard(r.role, {EndpointPermission(r.op)})
       THEN Refuse(p, r, "unauthorized")
  ELSE Service

createTaskController(p, w, pr, u, body) ==
  Controller(p, Request("create", w, pr, 0, u, body), createTaskSchema(body),
             CreateTask(p, w, pr, u, body))

updateTaskController(p, w, pr, t, u, body) ==
  Controller(p, Request("update", w, pr, t, u, body), updateTaskSchema(body),
             UpdateTaskRead(p, w, pr, t, u, body))

getTaskByIdController(p, w, pr, t, u) ==
  Controller(p, Request("get", w, pr, t, u, EmptyBody), TRUE,
             GetTaskById(p, w, pr, t, u))

\* a parameter of the query string: absent, or the characters of its value
NoParam == [given |-> FALSE, chars |-> <<>>]
Param(chars) == [given |-> TRUE, chars |-> chars]

DigitValue ==
  [c \in {"0", "1", "2", "3", "4", "5", "6", "7", "8", "9"} |->
     CASE c = "0" -> 0 [] c = "1" -> 1 [] c = "2" -> 2 [] c = "3" -> 3
       [] c = "4" -> 4 [] c = "5" -> 5 [] c = "6" -> 6 [] c = "7" -> 7
       [] c = "8" -> 8 [] c = "9" -> 9]

\* the characters of s after its leading blanks
RECURSIVE SkipBlanks(_)
SkipBlanks(s) ==
  IF s # <<>> /\ Head(s) = " " THEN SkipBlanks(Tail(s)) ELSE s

\* the number of leading digits of s
RECURSIVE DigitCount(_)
DigitCount(s) ==
  IF s # <<>> /\ Head(s) \in DOMAIN DigitValue
  THEN 1 + DigitCount(Tail(s))
  ELSE 0

\* the value of the first n characters of s, all digits, after value acc
RECURSIVE DigitsValue(_, _, _)
DigitsValue(s, n, acc) ==
  IF n = 0 THEN acc
  ELSE DigitsValue(Tail(s), n - 1, 10 * acc + DigitValue[Head(s)])

\* parseInt(x): blanks, a sign, then the longest run of digits; NaN without a
\* digit there, and for an absent parameter (the string "undefined")
parseInt(x) ==
  LET s == SkipBlanks(x.chars)
      signed == s # <<>> /\ Head(s) \in {"-", "+"}
      digits == IF signed THEN Tail(s) ELSE s
      n == DigitCount(digits)
  IN IF ~x.given \/ n = 0
     THEN [nan |-> TRUE, value |-> 0]
     ELSE [nan |-> FALSE,
           value |-> IF signed /\ Head(s) = "-"
                     THEN 0 - DigitsValue(digits, n, 0)
                     ELSE DigitsValue(digits, n, 0)]

\* n || fallback: NaN and 0 are falsy
OrElse(n, fallback) == IF n.nan \/ n.value = 0 THEN fallback ELSE n.value

DefaultPageSize == 10
DefaultPageNumber == 1

\* the pagination object of getAllTasksController
paginationOf(pageSize, pageNumber) ==
  [pageSize |-> OrElse(parseInt(pageSize), DefaultPageSize),
   pageNumber |-> OrElse(parseInt(pageNumber), DefaultPageNumber)]

getAllTasksController(p, w, u, filters, pageSize, pageNumber) ==
  Controller(p, [Request("list", w, "-", 0, u, EmptyBody)
                   EXCEPT !.filters = filters,
                          !.pagination = paginationOf(pageSize, pageNumber)],
             TRUE,
             GetAllTasks(p, w, u, filters, paginationOf(pageSize, pageNumber)))

deleteTaskController(p, w, t, u) ==
  Controller(p, Request("delete", w, "-", t, u, EmptyBody), TRUE,
             DeleteTask(p, w, t, u))

getTaskClarificationsController(p, w, t, u) ==
  Controller(p, ClarRequest("clar_list", w, t, 0, u, NoText), TRUE,
             GetClarificationsVerify(p, w, t, u))

\* the service receives body.question, the parsed (trimmed) string
createTaskClarificationController(p, w, t, u, question) ==
  Controller(p, ClarRequest("clar_create", w, t, 0, u, question),
             createClarificationSchema(question),
             CreateClarificationVerify(p, w, t, u, Trim(question)))

\* the service receives body.message, the parsed (trimmed) string
respondToTaskClarificationController(p, w, t, c, u, message) ==
  Controller(p, ClarRequest("clar_respond", w, t, c, u, message),
             respondClarificationSchema(message),
             RespondVerify(p, w, t, c, u, Trim(message)))

(***************************************************************************)
(* Requests                                                                *)
(***************************************************************************)
\* the project of each workspace
HomeProject(w) == IF w = "w1" THEN "p1" ELSE "p2"

\* the callers of a workspace: the controller resolves the role of a member
Callers == {<<w, u>> \in Workspaces \X Users : IsMember(u, w)}

\* a create body: the validated fields and an optional assignee
CreateBody(a) ==
  Body([title |-> "t0", priority |-> "LOW", status |-> "TODO", assignedTo |-> a])

\* create requests <<workspace, project, caller, body>> of the OWNER of w1 and
\* the ADMIN of w2: no assignee, a member and a non-member in the workspace's
\* own project, and every project id without an assignee
CreateInputs ==
  {<<"w1", "p1", "u1", CreateBody(a)>> : a \in {Undef, "u2", "u3"}}
  \cup {<<"w2", "p2", "u3", CreateBody(a)>> : a \in {Undef, "u1", "u2"}}
  \cup {<<w, pr, IF w = "w1" THEN "u1" ELSE "u3", CreateBody(Undef)>> :
          w \in Workspaces, pr \in ProjectIds}

\* values an update request may carry in each field
FieldValues(f) ==
  CASE f = "status" -> {"TODO", "DONE"}
    [] f = "title" -> {"t1"}
    [] f = "description" -> {"d1"}
    [] f = "priority" -> {"HIGH"}
    [] f = "dueDate" -> {"2025-01-01"}
    [] f = "assignedTo" -> {Null, EmptyStr, "u2", "u3"}

\* update bodies: no field, one field, or a status with one other field
UpdateBodies ==
  {EmptyBody}
  \cup UNION {{[EmptyBody EXCEPT ![f] = v] : v \in FieldValues(f)} :
                f \in BodyFields}
  \cup {[EmptyBody EXCEPT !.status = "DONE", !.title = "t1"],
        [EmptyBody EXCEPT !.status = "DONE", !.assignedTo = Null]}

\* update requests <<workspace, project, task, caller, body>>: every body in
\* the workspace's own project, and every other project id with a status
UpdateInputs ==
  {<<c[1], HomeProject(c[1]), t, c[2], body>> :
     c \in Callers, t \in TaskIds, body \in UpdateBodies}
  \cup {<<c[1], pr, t, c[2], Body([status |-> "DONE"])>> :
          c \in Callers, t \in TaskIds, pr \in ProjectIds}

Init ==
  /\ tasks = <<>>
  /\ taskCount = 0
  /\ taskWrites = 0
  /\ clars = <<>>
  /\ now = 0
  /\ req = [p \in Procs |-> NoReq]
  /\ ui = NoUi

\* task requests, handled one after another
Next ==
  \/ \E i \in CreateInputs : CreateTask("a", i[1], i[2], i[3], i[4])
  \/ \E i \in UpdateInputs : UpdateTaskRead("a", i[1], i[2], i[3], i[4], i[5])
  \/ UpdateTaskWrite("a")
  \/ \E c \in Callers, pr \in ProjectIds, t \in TaskIds :
       GetTaskById("a", c[1], pr, t, c[2])
  \/ \E c \in Callers, t \in TaskIds : DeleteTask("a", c[1], t, c[2])

Spec == Init /\ [][Next]_vars

\* the user of each client session
ClientUser(p) == IF p = "a" THEN "u1" ELSE "u2"

\* clarification requests of two clients, interleaved with each other, with
\* the clock and with the creation and deletion of tasks of workspace w1 by
\* client a; client a is a member of both workspaces and names either one;
\* questions and responses name the first task id, before the task is
\* created, while it is stored and after it is deleted
NextClar ==
  \/ CreateTask("a", "w1", "p1", ClientUser("a"), CreateBody(Undef))
  \/ \E t \in TaskIds : DeleteTask("a", "w1", t, ClientUser("a"))
  \/ \E w \in Workspaces, t \in TaskIds :
       GetClarificationsVerify("a", w, t, ClientUser("a"))
  \/ \E p \in Procs, w \in Workspaces :
       \/ CreateClarificationVerify(p, w, 1, ClientUser(p), Text(0, 5, 0))
       \/ \E c \in ClarIds :
            RespondVerify(p, w, 1, c, ClientUser(p), Text(0, 2, 0))
  \/ \E p \in Procs :
       \/ GetClarificationsFind(p)
       \/ CreateClarificationWrite(p)
       \/ RespondPush(p)
  \/ Tick

SpecClar == Init /\ [][NextClar]_vars

\* texts a question or a response message may carry: at each bound, one
\* character outside it, blank only, short only by its padding
QuestionTexts ==
  {Text(0, QuestionMin, 0), Text(1, QuestionMin - 1, 1), Text(2, 0, 3),
   Text(1, QuestionMax, 2), Text(0, QuestionMax + 1, 0)}

MessageTexts ==
  {Text(0, MessageMin, 0), Text(1, MessageMin - 1, 1),
   Text(1, MessageMax, 2), Text(0, MessageMax + 1, 0)}

\* create requests <<workspace, project, caller, body>> at the controller:
\* the OWNER of w1 with a member and with a non-member as assignee, a
\* MEMBER, a caller who is no member, a body without title from that caller,
\* the project of another workspace
CtlCreateInputs ==
  {<<"w1", "p1", "u1", CreateBody("u2")>>,
   <<"w1", "p1", "u1", CreateBody("u3")>>,
   <<"w1", "p1", "u2", CreateBody(Undef)>>,
   <<"w1", "p1", "u3", CreateBody(Undef)>>,
   <<"w1", "p1", "u3", [CreateBody(Undef) EXCEPT !.title = EmptyStr]>>,
   <<"w1", "p2", "u1", CreateBody(Undef)>>}

\* update requests <<caller, body>>: the OWNER with an accepted body, an
\* empty body, an empty string as assignee, a status outside the enum and a
\* non-member as assignee; the MEMBER with a status and with a title; a
\* caller who is no member
CtlUpdateInputs ==
  {<<"u1", body>> :
     body \in {EmptyBody, Body([status |-> "DONE"]),
               Body([assignedTo |-> EmptyStr]), Body([assignedTo |-> "u3"]),
               Body([status |-> "NONE"])}}
  \cup {<<"u2", Body([status |-> "DONE"])>>, <<"u2", Body([title |-> "t1"])>>,
        <<"u3", Body([status |-> "DONE"])>>}

\* question requests <<caller, question>>: every text from the OWNER, a text
\* within and a text outside the bounds from a caller who is no member
CtlQuestionInputs ==
  {<<"u1", q>> : q \in QuestionTexts}
  \cup {<<"u3", Text(0, QuestionMin, 0)>>, <<"u3", Text(1, QuestionMin - 1, 1)>>}

\* respond requests <<caller, message>>: every text from the OWNER, a text
\* within and a text outside the bounds from a MEMBER
CtlRespondInputs ==
  {<<"u1", m>> : m \in MessageTexts}
  \cup {<<"u2", Text(0, MessageMin, 0)>>, <<"u2", Text(1, MessageMin - 1, 1)>>}

\* requests of client a for the first task id in workspace w1, handled one
\* after another, while client b, the OWNER of w1, deletes that task
NextCtl ==
  \/ \E i \in CtlCreateInputs :
       createTaskController("a", i[1], i[2], i[3], i[4])
  \/ \E i \in CtlUpdateInputs :
       updateTaskController("a", "w1", "p1", 1, i[1], i[2])
  \/ UpdateTaskWrite("a")
  \/ \E u \in {"u1", "u3"} : getTaskByIdController("a", "w1", "p1", 1, u)
  \/ \E u \in Users : deleteTaskController("a", "w1", 1, u)
  \/ deleteTaskController("b", "w1", 1, "u1")
  \/ \E u \in {"u1", "u3"} : getTaskClarificationsController("a", "w1", 1, u)
  \/ GetClarificationsFind("a")
  \/ \E i \in CtlQuestionInputs :
       createTaskClarificationController("a", "w1", 1, i[1], i[2])
  \/ CreateClarificationWrite("a")
  \/ \E c \in ClarIds, i \in CtlRespondInputs :
       respondToTaskClarificationController("a", "w1", 1, c, i[1], i[2])
  \/ RespondPush("a")

SpecCtl == Init /\ [][NextCtl]_vars

\* a create body with a status and an assignee
StatusBody(status, a) == [CreateBody(a) EXCEPT !.status = status]

\* client b creates tasks of every status: of w1 by its OWNER for the MEMBER
\* u2, of w2 by its ADMIN for the MEMBER u1; client a sends updates that
\* carry only a status, from every member of the workspace
NextStatus ==
  \/ \E status \in TaskStatusEnum :
       \/ CreateTask("b", "w1", "p1", "u1", StatusBody(status, "u2"))
       \/ CreateTask("b", "w2", "p2", "u3", StatusBody(status, "u1"))
  \/ \E c \in Callers, t \in TaskIds, status \in TaskStatusEnum :
       UpdateTaskRead("a", c[1], HomeProject(c[1]), t, c[2],
                      Body([status |-> status]))
  \/ UpdateTaskWrite("a")

SpecStatus == Init /\ [][NextStatus]_vars

\* create requests <<workspace, project, caller, body>> behind the tasks of a
\* listed store: two of workspace w1 that differ in status, priority,
\* assignee, title and due date, and one of workspace w2
ListKinds ==
  {<<"w1", "p1", "u1", CreateBody(Undef)>>,
   <<"w1", "p1", "u1",
     Body([title |-> "t1", priority |-> "HIGH", status |-> "DONE",
           assignedTo |-> "u2", dueDate |-> "2025-01-01"])>>,
   <<"w2", "p2", "u3", CreateBody(Undef)>>}

\* the document the create request k left when it was saved at time `at`
StoredTask(k, at) == [NewTask(k[1], k[2], k[3], k[4]) EXCEPT !.createdAt = at]

\* the time the i-th task was saved: one task per tick of the clock, or the
\* first two within the same tick
SavedAt(i, sameTick) == IF sameTick /\ i > 1 THEN i - 2 ELSE i - 1

\* a store with a task under every id of ListIds, nothing in flight
InitList ==
  /\ now = Cardinality(ListIds)
  /\ \E kinds \in [ListIds -> ListKinds], sameTick \in BOOLEAN :
       tasks = [i \in ListIds |-> StoredTask(kinds[i], SavedAt(i, sameTick))]
  /\ taskCount = Cardinality(ListIds)
  /\ taskWrites = Cardinality(ListIds)
  /\ clars = <<>>
  /\ req = [p \in Procs |-> NoReq]
  /\ ui = NoUi

\* filters: none, each key alone, an empty array, every key of the claim
\* together, the project of workspace w2
ListFilters ==
  {NoFilters,
   [NoFilters EXCEPT !.projectId = "p1"],
   [NoFilters EXCEPT !.projectId = "p2"],
   [NoFilters EXCEPT !.status = Given({"DONE"})],
   [NoFilters EXCEPT !.status = Given({})],
   [NoFilters EXCEPT !.priority = Given({"HIGH"})],
   [NoFilters EXCEPT !.assignedTo = Given({"u2"})],
   [NoFilters EXCEPT !.projectId = "p1",
                     !.status = Given({"DONE", "IN_PROGRESS"}),
                     !.priority = Given({"HIGH"}),
                     !.assignedTo = Given({"u1", "u2"})],
   [NoFilters EXCEPT !.keyword = "T1"],
   [NoFilters EXCEPT !.dueDate = "2025-01-01T00:00:00.000Z"]}

\* pagination of requests for pages of one and of two tasks, up to the page
\* after the last
Pages ==
  {[pageSize |-> size, pageNumber |-> n] :
     size \in 1..2, n \in 1..(Cardinality(ListIds) + 1)}

\* <<workspace, filters, pagination>>: every filter with a page that holds
\* the whole store, and the pages of two listings of workspace w1
ListInputs ==
  {<<w, f, [pageSize |-> Cardinality(ListIds), pageNumber |-> 1]>> :
     w \in Workspaces, f \in ListFilters}
  \cup {<<"w1", f, pg>> :
          f \in {NoFilters, [NoFilters EXCEPT !.priority = Given({"HIGH"})]},
          pg \in Pages}

\* listings of two clients over a store that no request changes; client b
\* asks for the pages of the listing without filters
NextList ==
  \/ \E i \in ListInputs : GetAllTasks("a", i[1], ClientUser("a"), i[2], i[3])
  \/ \E pg \in Pages : GetAllTasks("b", "w1", ClientUser("b"), NoFilters, pg)

SpecList == InitList /\ [][NextList]_vars

\* question requests <<workspace, task, caller>> behind the clarifications
\* of a listed store
ListClarKinds ==
  {<<"w1", 1, "u1">>, <<"w1", 2, "u2">>, <<"w2", 3, "u3">>}

\* the document the question request k left when it was created at time `at`
StoredClarification(k, at) ==
  [NewClarification(ClarRequest("clar_create", k[1], k[2], 0, k[3],
                                Text(0, QuestionMin, 0)))
     EXCEPT !.createdAt = at]

\* two tasks of workspace w1 and one of w2, the second task stored or
\* deleted, and a clarification under every id of ListIds
InitClarList ==
  /\ now = Cardinality(ListIds)
  /\ \E deleted \in SUBSET {2} :
       tasks = [i \in ListIds \ deleted |->
                  StoredTask(<<IF i = 3 THEN "w2" ELSE "w1",
                               IF i = 3 THEN "p2" ELSE "p1",
                               IF i = 3 THEN "u3" ELSE "u1",
                               CreateBody(Undef)>>, 0)]
  /\ taskCount = Cardinality(ListIds)
  /\ taskWrites = Cardinality(ListIds)
  /\ \E kinds \in [ListIds -> ListClarKinds], sameTick \in BOOLEAN :
       clars = [i \in ListIds |->
                  StoredClarification(kinds[i], SavedAt(i, sameTick))]
  /\ req = [p \in Procs |-> NoReq]
  /\ ui = NoUi

\* listings of the clarifications of every task by client a under either
\* workspace and by client b under w1, over a store that no request changes
NextClarList ==
  \/ \E p \in Procs, w \in Workspaces, t \in ListIds :
       GetClarificationsVerify(p, w, t, ClientUser(p))
  \/ \E p \in Procs : GetClarificationsFind(p)

SpecClarList == InitClarList /\ [][NextClarList]_vars

\* a store after three requests: a task of w1 created by its OWNER for the
\* MEMBER u2, a task of w2 created by its ADMIN for the MEMBER u1, and a
\* question of u2 about the first task; nothing in flight
InitStored ==
  /\ now = 0
  /\ tasks = [i \in TaskIds |->
                IF i = 1
                THEN StoredTask(<<"w1", "p1", "u1", CreateBody("u2")>>, 0)
                ELSE StoredTask(<<"w2", "p2", "u3", CreateBody("u1")>>, 0)]
  /\ taskCount = Cardinality(TaskIds)
  /\ taskWrites = 0
  /\ clars = <<StoredClarification(<<"w1", 1, "u2">>, 0)>>
  /\ req = [p \in Procs |-> NoReq]
  /\ ui = NoUi

\* update bodies of the OWNER in a race: the assignee cleared, the task
\* given to the OWNER, and fields other than status and assignee
RaceBodies ==
  {Body([assignedTo |-> Null]), Body([assignedTo |-> "u1"]),
   Body([title |-> "t1"]),
   Body([priority |-> "HIGH", dueDate |-> "2025-01-01"]),
   Body([description |-> "d1"])}

\* updates of the first task by two clients, interleaved: client a is its
\* assignee, the MEMBER u2, and sends a status; client b is the OWNER u1
NextRace ==
  \/ \E status \in {"IN_PROGRESS", "DONE"} :
       UpdateTaskRead("a", "w1", "p1", 1, "u2", Body([status |-> status]))
  \/ \E body \in RaceBodies : UpdateTaskRead("b", "w1", "p1", 1, "u1", body)
  \/ \E p \in Procs : UpdateTaskWrite(p)

SpecRace == InitStored /\ [][NextRace]_vars

\* update requests <<workspace, project, task, caller, body>> of the members
\* of w1: every body for either task in the workspace's own project, and
\* every project id with an empty body and with a title, so that a request
\* can fail several checks at once
FailingInputs ==
  {<<"w1", "p1", t, u, body>> :
     t \in TaskIds, u \in {"u1", "u2"}, body \in UpdateBodies}
  \cup {<<"w1", pr, 1, u, body>> :
          pr \in ProjectIds, u \in {"u1", "u2"},
          body \in {EmptyBody, Body([title |-> "t1"])}}

\* updates of the stored tasks, one after another
NextUpd ==
  \/ \E i \in FailingInputs : UpdateTaskRead("a", i[1], i[2], i[3], i[4], i[5])
  \/ UpdateTaskWrite("a")

SpecUpd == InitStored /\ [][NextUpd]_vars

\* values of the pageSize and pageNumber parameters: absent, empty, not a
\* number, zero, negative, positive, and a number followed by other text
PageParams ==
  {NoParam, Param(<<>>), Param(<<"a", "b", "c">>), Param(<<"0">>),
   Param(<<"-", "1">>), Param(<<"-", "2">>), Param(<<"1">>), Param(<<"2">>),
   Param(<<" ", "1", "2">>), Param(<<"2", "x">>)}

\* listings of workspace w1 through the controller, without filters and
\* with a status, over a store that no request changes
NextPage ==
  \E u \in Users, pageSize \in PageParams, pageNumber \in PageParams :
    \E filters \in {NoFilters, [NoFilters EXCEPT !.status = Given({"DONE"})]} :
      getAllTasksController("a", "w1", u, filters, pageSize, pageNumber)

SpecPage == InitStored /\ [][NextPage]_vars

(***************************************************************************)
(* EditTaskForm (client)                                                   *)
(***************************************************************************)
UNASSIGNED_OPTION_VALUE == "__unassigned__"

\* roleName === "OWNER" || roleName === "ADMIN", on the role the client holds
\* for the user in workspace.members
formIsOwnerOrAdmin(roleName) == roleName = "OWNER" \/ roleName = "ADMIN"

\* task.assignedTo?._id === user?._id, for a signed-in user
isTaskAssignee(task, u) ==
  task.assignedTo \notin {Undef, Null} /\ task.assignedTo = u

canUpdateStatus(roleName, task, u) ==
  formIsOwnerOrAdmin(roleName) \/ isTaskAssignee(task, u)

\* fault: the other fields are added for every user who may submit
payloadData_allFields(roleName, values) ==
  [f \in BodyFields |->
     IF f = "status" THEN values.status
     ELSE IF f = "assignedTo"
          THEN (IF Truthy(values.assignedTo)
                   /\ values.assignedTo # UNASSIGNED_OPTION_VALUE
                THEN values.assignedTo ELSE Null)
     ELSE values[f]]

\* payloadData of onSubmit: the status, and for OWNER/ADMIN the other fields
\* of the form, the assignee as an id or null
payloadData(roleName, values) ==
  [f \in BodyFields |->
     IF f = "status" THEN values.status
     ELSE IF ~formIsOwnerOrAdmin(roleName) THEN Undef
     ELSE IF f = "assignedTo"
          THEN (IF Truthy(values.assignedTo)
                   /\ values.assignedTo # UNASSIGNED_OPTION_VALUE
                THEN values.assignedTo ELSE Null)
     ELSE values[f]]

\* values that pass formSchema: a title, a description that may be empty, a
\* status and a priority of the enums, a due date, and as assignee nothing,
\* the unassigned option, or an option of the member list
FormValues(w) ==
  {[title |-> "t1", description |-> d, status |-> st, priority |-> "HIGH",
    assignedTo |-> a, dueDate |-> "2025-01-01"] :
     d \in {EmptyStr, "d1"}, st \in {"TODO", "DONE"},
     a \in {Undef, EmptyStr, UNASSIGNED_OPTION_VALUE}
            \cup {u \in Users : IsMember(u, w)}}

\* onSubmit of the form opened by user u on stored task t, with the role and
\* the task as the server has them; editTaskMutationFn puts the request to
\* the update endpoint.  Without a request the submission is recorded as
\* "not_sent".
EditTaskFormSubmit(p, w, t, u, values) ==
  /\ req[p].pc = "idle"
  /\ t \in DOMAIN tasks
  /\ tasks[t].workspace = w
  /\ IsMember(u, w)
  /\ IF ~canUpdateStatus(RoleOf(u, w), tasks[t], u)
     THEN /\ req' = [req EXCEPT ![p] =
                       [Request("edit_form", w, tasks[t].project, t, u, values)
                          EXCEPT !.result = "not_sent"]]
          /\ UNCHANGED <<tasks, taskCount, taskWrites, clars, now, ui>>
     ELSE UpdateTaskRead(p, w, tasks[t].project, t, u,
                         payloadData(RoleOf(u, w), values))

\* submissions of the form by every member for every task of the member's
\* workspace, one after another
NextForm ==
  \/ \E c \in Callers, t \in TaskIds : \E values \in FormValues(c[1]) :
       EditTaskFormSubmit("a", c[1], t, c[2], values)
  \/ UpdateTaskWrite("a")

SpecForm == InitStored /\ [][NextForm]_vars

(***************************************************************************)
(* ClarificationSection (client): the respondClarification mutation.  A    *)
(* response in flight is a record of ui.inFlight; the server's answer is   *)
(* its outcome, success or error.                                          *)
(***************************************************************************)
\* isPending of useMutation: the mutation started last has not settled
isSubmittingResponse ==
  \E m \in ui.inFlight : m.id = ui.mutations

\* the isSubmitting prop of the card of clarification c
isSubmitting(c) == isSubmittingResponse /\ ui.activeResponseId = c

\* drafts typed into a card: nothing, a blank, a message
Drafts == {EmptyStr, " ", "m1"}

\* answerDrafts[clarificationId]?.trim()
TrimDraft(d) == IF d = " " THEN EmptyStr ELSE d

\* onDraftChange of the card's textarea, which is never disabled
onDraftChange(c, value) ==
  /\ ui.answerDrafts[c] # value
  /\ ui' = [ui EXCEPT !.answerDrafts[c] = value]
  /\ UNCHANGED <<tasks, taskCount, taskWrites, clars, now, req>>

\* a click on Respond of card c, enabled unless the card is submitting:
\* handleRespond returns on an empty message, else respondClarification
\* starts a mutation and its onMutate sets activeResponseId
handleRespond(c) ==
  /\ ~isSubmitting(c)
  /\ Truthy(TrimDraft(ui.answerDrafts[c]))
  /\ ui.mutations < MaxMutations
  /\ ui' = [ui EXCEPT !.mutations = @ + 1,
                      !.inFlight = @ \cup {[id |-> ui.mutations + 1,
                                            clarificationId |-> c]},
                      !.activeResponseId = c]
  /\ UNCHANGED <<tasks, taskCount, taskWrites, clars, now, req>>

\* the request of mutation m settles: onSuccess empties the draft of its
\* card, onError keeps it, and onSettled resets activeResponseId
respondSettled(m, success) ==
  /\ m \in ui.inFlight
  /\ ui' = [ui EXCEPT !.inFlight = @ \ {m},
                      !.answerDrafts[m.clarificationId] =
                        IF success THEN EmptyStr ELSE @,
                      !.activeResponseId = Null]
  /\ UNCHANGED <<tasks, taskCount, taskWrites, clars, now, req>>

NextUi ==
  \/ \E c \in CardIds, value \in Drafts : onDraftChange(c, value)
  \/ \E c \in CardIds : handleRespond(c)
  \/ \E m \in ui.inFlight, success \in BOOLEAN : respondSettled(m, success)

SpecUi == InitStored /\ [][NextUi]_vars

(***************************************************************************)
(* Properties                                                              *)
(***************************************************************************)
\* the first step of a request of client p: the request arrives and its
\* handler runs up to the end of its first data-store round trip
Arrives(p) == req[p].pc = "idle" /\ req'[p] # req[p]

\* request r has been answered
Answered(r) == r.pc = "idle" /\ r.result # "-"

\* the task named by request r is stored, in the project and workspace named
TaskFound(r) ==
  /\ r.project \in DOMAIN projects
  /\ projects[r.project] = r.ws
  /\ r.task \in DOMAIN tasks
  /\ tasks[r.task].project = r.project
  /\ tasks[r.task].workspace = r.ws

\* the caller of request r is OWNER or ADMIN of the workspace named
Privileged(r) == members[r.ws][r.user] \in {"OWNER", "ADMIN"}

\* the fields of the body of r, other than status, that are defined
OtherFields(r) == {f \in BodyFields \ {"status"} : r.body[f] # Undef}

\* C1: an update of a stored task of the named project and workspace by a
\* caller who is neither OWNER nor ADMIN nor the assignee of the task (a task
\* without assignee included) is answered unauthorized and writes nothing,
\* for every body.
C1_NonAssigneeUnauthorized ==
  [][\A p \in Procs :
       (/\ Arrives(p)
        /\ req'[p].op = "update"
        /\ TaskFound(req'[p])
        /\ ~Privileged(req'[p])
        /\ tasks[req'[p].task].assignedTo # req'[p].user)
       => (/\ req'[p].result = "unauthorized"
           /\ req'[p].pc = "idle"
           /\ tasks' = tasks)]_vars

\* a MEMBER who is not the assignee was refused a body with only a status,
\* on a task that has no assignee
C1_Witness ==
  \E p \in Procs :
    /\ req[p].op = "update"
    /\ Answered(req[p])
    /\ req[p].result = "unauthorized"
    /\ TaskFound(req[p])
    /\ members[req[p].ws][req[p].user] = "MEMBER"
    /\ tasks[req[p].task].assignedTo \in {Undef, Null}
    /\ req[p].body.status # Undef
    /\ OtherFields(req[p]) = {}

\* C2: an update by a caller who is not OWNER or ADMIN whose body defines a
\* field other than status (a null assignedTo included) is refused as a whole,
\* with or without a status: unauthorized when the task is found, and in no
\* case a write; and no write of an update by such a caller changes the
\* title, description, priority, assignee or due date of any task.
C2_MembersOnlyStatus ==
  [][\A p \in Procs :
       /\ (/\ Arrives(p)
           /\ req'[p].op = "update"
           /\ ~Privileged(req'[p])
           /\ OtherFields(req'[p]) # {})
          => (/\ req'[p].pc = "idle"
              /\ req'[p].result \in {"unauthorized", "not_found"}
              /\ TaskFound(req'[p]) => req'[p].result = "unauthorized"
              /\ tasks' = tasks)
       /\ (/\ req[p].op = "update"
           /\ req[p].pc = "update_write"
           /\ req'[p].pc = "idle"
           /\ ~Privileged(req[p]))
          => (/\ DOMAIN tasks' = DOMAIN tasks
              /\ \A t \in DOMAIN tasks :
                   \A f \in {"title", "description", "priority",
                             "assignedTo", "dueDate"} :
                     tasks'[t][f] = tasks[t][f])]_vars

\* the assignee, a MEMBER, was refused a body with a status and a null
\* assignedTo
C2_Witness ==
  \E p \in Procs :
    /\ req[p].op = "update"
    /\ Answered(req[p])
    /\ req[p].result = "unauthorized"
    /\ TaskFound(req[p])
    /\ members[req[p].ws][req[p].user] = "MEMBER"
    /\ tasks[req[p].task].assignedTo = req[p].user
    /\ req[p].body.status # Undef
    /\ req[p].body.assignedTo = Null

\* C3: an update by OWNER, ADMIN or the assignee whose body defines no field
\* is answered bad-request and writes nothing.
C3_EmptyUpdateBadRequest ==
  [][\A p \in Procs :
       (/\ Arrives(p)
        /\ req'[p].op = "update"
        /\ TaskFound(req'[p])
        /\ \/ Privileged(req'[p])
           \/ tasks[req'[p].task].assignedTo = req'[p].user
        /\ \A f \in BodyFields : req'[p].body[f] = Undef)
       => (/\ req'[p].result = "bad_request"
           /\ req'[p].pc = "idle"
           /\ tasks' = tasks)]_vars

\* the assignee, a MEMBER, sent an update without any field
C3_Witness ==
  \E p \in Procs :
    /\ req[p].op = "update"
    /\ Answered(req[p])
    /\ req[p].result = "bad_request"
    /\ TaskFound(req[p])
    /\ ~Privileged(req[p])
    /\ tasks[req[p].task].assignedTo = req[p].user
    /\ \A f \in BodyFields : req[p].body[f] = Undef

\* C4: assigning a task to a user who is not a member of the workspace is
\* answered bad-request, on create and on update by OWNER or ADMIN, and no
\* task is created or changed.
C4_NonMemberAssigneeBadRequest ==
  [][\A p \in Procs :
       (/\ Arrives(p)
        /\ req'[p].body.assignedTo \in Users
        /\ members[req'[p].ws][req'[p].body.assignedTo] = "NONE"
        /\ \/ /\ req'[p].op = "create"
              /\ req'[p].project \in DOMAIN projects
              /\ projects[req'[p].project] = req'[p].ws
           \/ /\ req'[p].op = "update"
              /\ TaskFound(req'[p])
              /\ Privileged(req'[p]))
       => (/\ req'[p].result = "bad_request"
           /\ req'[p].pc = "idle"
           /\ tasks' = tasks)]_vars

\* C5: the project of every stored task belongs to the workspace of the
\* task, and no step changes the project or the workspace of a stored task.
C5_TaskProjectInWorkspace ==
  /\ [](\A t \in DOMAIN tasks :
          /\ tasks[t].project \in DOMAIN projects
          /\ projects[tasks[t].project] = tasks[t].workspace)
  /\ [][\A t \in DOMAIN tasks \cap DOMAIN tasks' :
          /\ tasks'[t].project = tasks[t].project
          /\ tasks'[t].workspace = tasks[t].workspace]_vars

\* a task is stored, and a create that named the project of another
\* workspace was answered not-found
C5_Witness ==
  \E p \in Procs :
    /\ req[p].op = "create"
    /\ Answered(req[p])
    /\ req[p].result = "not_found"
    /\ req[p].project \in DOMAIN projects
    /\ projects[req[p].project] # req[p].ws
    /\ tasks # <<>>

\* C6: the assignee of every stored task is unset or a member of the
\* workspace of the task.
C6_AssigneeIsMember ==
  \A t \in DOMAIN tasks :
    \/ tasks[t].assignedTo \in {Undef, Null}
    \/ /\ tasks[t].assignedTo \in Users
       /\ members[tasks[t].workspace][tasks[t].assignedTo] # "NONE"

\* an update has given a task, created without assignee, an assignee
C6_Witness ==
  \E p \in Procs :
    /\ req[p].op = "update"
    /\ Answered(req[p])
    /\ req[p].result = "ok"
    /\ req[p].body.assignedTo \in Users
    /\ req[p].task \in DOMAIN tasks
    /\ tasks[req[p].task].assignedTo = req[p].body.assignedTo

\* C7: the list, create-question and respond operations answer not-found
\* when no task with the given id is stored in the given workspace, and then
\* never issue their clarification query: no clarification is read or
\* written.
C7_ClarificationNeedsTask ==
  [][\A p \in Procs :
       (/\ Arrives(p)
        /\ req'[p].op \in {"clar_list", "clar_create", "clar_respond"}
        /\ ~(/\ req'[p].task \in DOMAIN tasks
             /\ tasks[req'[p].task].workspace = req'[p].ws))
       => (/\ req'[p].result = "not_found"
           /\ req'[p].pc = "idle"
           /\ clars' = clars)]_vars

\* a response to a stored clarification of a stored task, sent under the id
\* of another workspace, was answered not-found
C7_Witness ==
  \E p \in Procs :
    /\ req[p].op = "clar_respond"
    /\ Answered(req[p])
    /\ req[p].result = "not_found"
    /\ req[p].task \in DOMAIN tasks
    /\ tasks[req[p].task].workspace # req[p].ws
    /\ req[p].clar \in 1..Len(clars)
    /\ clars[req[p].clar].task = req[p].task

\* C8: an update, get or delete that names a workspace other than the one of
\* the stored task it names is answered not-found and changes no task, for
\* every project id in the request.
C8_CrossWorkspaceNotFound ==
  [][\A p \in Procs :
       (/\ Arrives(p)
        /\ req'[p].op \in {"update", "get", "delete"}
        /\ req'[p].task \in DOMAIN tasks
        /\ tasks[req'[p].task].workspace # req'[p].ws)
       => (/\ req'[p].result = "not_found"
           /\ req'[p].pc = "idle"
           /\ tasks' = tasks)]_vars

\* the OWNER of one workspace sent an update for a task of another workspace
\* under his own workspace and project
C8_Witness ==
  \E p \in Procs :
    /\ req[p].op = "update"
    /\ Answered(req[p])
    /\ req[p].result = "not_found"
    /\ members[req[p].ws][req[p].user] = "OWNER"
    /\ req[p].project \in DOMAIN projects
    /\ projects[req[p].project] = req[p].ws
    /\ req[p].task \in DOMAIN tasks
    /\ tasks[req[p].task].workspace # req[p].ws

\* xs is a prefix of ys
IsPrefix(xs, ys) ==
  /\ Len(xs) <= Len(ys)
  /\ \A i \in 1..Len(xs) : ys[i] = xs[i]

\* C9: in every step the responses of every clarification before the step
\* are a prefix of its responses after the step, no clarification is removed,
\* and the push of a respond request appends exactly one entry: the message
\* and the caller of the request and the timestamp the handler took.
C9_ResponsesAppendOnly ==
  [][/\ Len(clars) <= Len(clars')
     /\ \A c \in 1..Len(clars) :
          IsPrefix(clars[c].responses, clars'[c].responses)
     /\ \A p \in Procs :
          (/\ req[p].pc = "clar_push"
           /\ req'[p].pc = "idle"
           /\ req'[p].result = "ok")
          => /\ req[p].clar \in 1..Len(clars)
             /\ clars'[req[p].clar].responses =
                  Append(clars[req[p].clar].responses,
                         [message |-> req[p].text,
                          respondedBy |-> req[p].user,
                          createdAt |-> req[p].ts])
             /\ \A c \in 1..Len(clars) :
                  c # req[p].clar => clars'[c] = clars[c]]_vars

\* a clarification holds the responses of two different callers
C9_Witness ==
  \E c \in 1..Len(clars) :
    /\ Len(clars[c].responses) = 2
    /\ clars[c].responses[1].respondedBy # clars[c].responses[2].respondedBy

\* C10: the createdAt timestamps of the responses of every clarification are
\* non-decreasing from the first entry to the last.
C10_ResponsesOrderedByTime ==
  \A c \in 1..Len(clars) :
    \A i, j \in 1..Len(clars[c].responses) :
      i < j => clars[c].responses[i].createdAt <= clars[c].responses[j].createdAt

\* C11: every stored clarification names a task that is stored, in the
\* workspace of the clarification.
C11_ClarificationTaskStored ==
  \A c \in 1..Len(clars) :
    /\ clars[c].task \in DOMAIN tasks
    /\ tasks[clars[c].task].workspace = clars[c].workspace

\* the role of the caller of request r holds the permission the endpoint of
\* r asks for
HoldsPermission(r) ==
  LET role == members[r.ws][r.user]
      permission == CASE r.op = "create" -> "CREATE_TASK"
                      [] r.op = "update" -> "EDIT_TASK"
                      [] r.op = "delete" -> "DELETE_TASK"
                      [] r.op = "clar_create" -> "VIEW_ONLY"
                      [] r.op = "clar_respond" -> "MANAGE_WORKSPACE_SETTINGS"
  IN role \in DOMAIN RolePermissions /\ permission \in RolePermissions[role]

\* C12: a create, update, delete, question or response of a caller whose role
\* in the workspace lacks the permission of the endpoint (CREATE_TASK,
\* EDIT_TASK, DELETE_TASK, VIEW_ONLY, MANAGE_WORKSPACE_SETTINGS) is refused
\* in its first step and writes nothing, and every step that changes a task
\* or a clarification completes a request of a caller who holds the
\* permission.
C12_PermissionBeforeWrite ==
  [][/\ \A p \in Procs :
          (/\ Arrives(p)
           /\ req'[p].op \in {"create", "update", "delete", "clar_create",
                              "clar_respond"}
           /\ ~HoldsPermission(req'[p]))
          => (/\ req'[p].pc = "idle"
              /\ req'[p].result \in {"unauthorized", "validation"}
              /\ tasks' = tasks
              /\ clars' = clars)
     /\ (tasks' # tasks \/ clars' # clars)
          => \E p \in Procs :
               /\ req'[p] # req[p]
               /\ req'[p].pc = "idle"
               /\ req'[p].result = "ok"
               /\ HoldsPermission(req'[p])]_vars

\* a MEMBER sent a response within the bounds to a stored clarification of a
\* stored task and was refused unauthorized
C12_Witness ==
  \E p \in Procs :
    /\ req[p].op = "clar_respond"
    /\ Answered(req[p])
    /\ req[p].result = "unauthorized"
    /\ members[req[p].ws][req[p].user] = "MEMBER"
    /\ req[p].text.len >= 1
    /\ req[p].task \in DOMAIN tasks
    /\ req[p].clar \in 1..Len(clars)
    /\ clars[req[p].clar].task = req[p].task

\* the length of s after trim
TrimmedLength(s) == s.len

\* C13: every stored question has between 5 and 1000 characters and every
\* stored response message between 1 and 1000, both without blanks at either
\* end; a question or response whose text, trimmed, is outside these bounds
\* is answered as a validation failure in its first step, whoever the caller
\* is, and writes nothing.
C13_TextBounds ==
  /\ [](\A c \in 1..Len(clars) :
          /\ clars[c].question.lead = 0 /\ clars[c].question.trail = 0
          /\ clars[c].question.len >= 5 /\ clars[c].question.len <= 1000
          /\ \A i \in 1..Len(clars[c].responses) :
               LET m == clars[c].responses[i].message
               IN /\ m.lead = 0 /\ m.trail = 0
                  /\ m.len >= 1 /\ m.len <= 1000)
  /\ [][\A p \in Procs :
          (/\ Arrives(p)
           /\ \/ /\ req'[p].op = "clar_create"
                 /\ ~(TrimmedLength(req'[p].text) \in 5..1000)
              \/ /\ req'[p].op = "clar_respond"
                 /\ ~(TrimmedLength(req'[p].text) \in 1..1000))
          => (/\ req'[p].pc = "idle"
              /\ req'[p].result = "validation"
              /\ tasks' = tasks
              /\ clars' = clars)]_vars

\* a question of 1000 characters, sent with blanks around it, is stored, and
\* a question of 4 characters between blanks, sent by a caller who is no
\* member, was answered as a validation failure
C13_Witness ==
  \E p \in Procs, c \in 1..Len(clars) :
    /\ clars[c].question.len = 1000
    /\ req[p].op = "clar_create"
    /\ Answered(req[p])
    /\ req[p].result = "validation"
    /\ members[req[p].ws][req[p].user] = "NONE"
    /\ req[p].text.len = 4
    /\ Length(req[p].text) >= 5

\* the stored tasks listing request r asks for: those of its workspace that
\* are within the project, the status set, the priority set and the assignee
\* set it gives; a set that is absent or empty asks for nothing
Asked(r) ==
  {t \in DOMAIN tasks :
     /\ tasks[t].workspace = r.ws
     /\ r.filters.projectId # Undef => tasks[t].project = r.filters.projectId
     /\ r.filters.status.values # {}
          => tasks[t].status \in r.filters.status.values
     /\ r.filters.priority.values # {}
          => tasks[t].priority \in r.filters.priority.values
     /\ r.filters.assignedTo.values # {}
          => tasks[t].assignedTo \in r.filters.assignedTo.values}

\* listing request r gives no keyword and no due date
FourFilters(r) == r.filters.keyword = Undef /\ r.filters.dueDate = Undef

\* the set of the ids a listing returned
Items(r) == {r.ret.items[i] : i \in 1..Len(r.ret.items)}

\* C14: a listing returns only tasks of its workspace that satisfy every
\* filter given, each once and newest first by createdAt; when the page
\* holds them all (and no keyword or due date is given) it returns every
\* such task, so that an absent or empty set restricts nothing.
C14_ListFiltered ==
  \A p \in Procs :
    (req[p].op = "list" /\ Answered(req[p]))
    => LET r == req[p]
           items == r.ret.items
       IN /\ r.result = "ok"
          /\ Items(r) \subseteq Asked(r)
          /\ \A i, j \in 1..Len(items) :
               i < j => /\ items[i] # items[j]
                        /\ tasks[items[i]].createdAt >= tasks[items[j]].createdAt
          /\ (/\ FourFilters(r)
              /\ r.pagination.pageNumber = 1
              /\ r.pagination.pageSize >= Cardinality(Asked(r)))
             => Items(r) = Asked(r)

\* a listing that gave a project, a status set, a priority set and an
\* assignee set returned two tasks, the newer first, and left out a task of
\* the workspace
C14_Witness ==
  \E p \in Procs :
    /\ req[p].op = "list"
    /\ Answered(req[p])
    /\ req[p].filters.projectId # Undef
    /\ req[p].filters.status.values # {}
    /\ req[p].filters.priority.values # {}
    /\ req[p].filters.assignedTo.values # {}
    /\ Len(req[p].ret.items) = 2
    /\ tasks[req[p].ret.items[1]].createdAt > tasks[req[p].ret.items[2]].createdAt
    /\ \E t \in DOMAIN tasks :
         tasks[t].workspace = req[p].ws /\ t \notin Items(req[p])

\* listings p and q ask for pages of the same listing
SameListing(p, q) ==
  /\ req[p].op = "list" /\ Answered(req[p])
  /\ req[q].op = "list" /\ Answered(req[q])
  /\ req[p].ws = req[q].ws
  /\ req[p].filters = req[q].filters
  /\ req[p].pagination.pageSize = req[q].pagination.pageSize

\* C15: over an unchanged store a listing reports as totalCount the number
\* of tasks asked for and as totalPages the least number of pages that hold
\* them; page n holds as many tasks as positions (n-1)*pageSize+1 ..
\* n*pageSize exist, the page after the last none; no task is on two pages
\* of the same listing, earlier pages hold newer tasks, and two pages that
\* are all the pages hold every task asked for.
C15_PagesPartition ==
  /\ \A p \in Procs :
       (req[p].op = "list" /\ Answered(req[p]) /\ FourFilters(req[p]))
       => LET r == req[p]
              size == r.pagination.pageSize
              n == r.pagination.pageNumber
              count == Cardinality(Asked(r))
          IN /\ r.ret.totalCount = count
             /\ r.ret.totalPages * size >= count
             /\ (r.ret.totalPages - 1) * size < count
             /\ Len(r.ret.items) =
                  IF n * size <= count THEN size
                  ELSE IF (n - 1) * size < count THEN count - (n - 1) * size
                  ELSE 0
             /\ n = r.ret.totalPages + 1 => r.ret.items = <<>>
  /\ \A p, q \in Procs :
       (/\ SameListing(p, q)
        /\ FourFilters(req[p])
        /\ req[p].pagination.pageNumber < req[q].pagination.pageNumber)
       => /\ Items(req[p]) \cap Items(req[q]) = {}
          /\ \A t \in Items(req[p]), u \in Items(req[q]) :
               tasks[t].createdAt >= tasks[u].createdAt
          /\ (/\ req[p].pagination.pageNumber = 1
              /\ req[q].pagination.pageNumber = 2
              /\ req[p].ret.totalPages = 2)
             => Items(req[p]) \cup Items(req[q]) = Asked(req[p])

\* C16: a listing of the clarifications of a task returns exactly the
\* stored clarifications of the workspace and the task it names, each once,
\* newest first by createdAt.
C16_ClarificationsListed ==
  \A p \in Procs :
    (req[p].op = "clar_list" /\ Answered(req[p]) /\ req[p].result = "ok")
    => LET r == req[p]
           items == r.ret.items
       IN /\ Items(r) = {c \in 1..Len(clars) :
                           /\ clars[c].workspace = r.ws
                           /\ clars[c].task = r.task}
          /\ \A i, j \in 1..Len(items) :
               i < j => /\ items[i] # items[j]
                        /\ clars[items[i]].createdAt >= clars[items[j]].createdAt

\* a listing returned two clarifications of its task, the newer first, while
\* a clarification of another task of the workspace is stored
C16_Witness ==
  \E p \in Procs :
    /\ req[p].op = "clar_list"
    /\ Answered(req[p])
    /\ Len(req[p].ret.items) = 2
    /\ clars[req[p].ret.items[1]].createdAt > clars[req[p].ret.items[2]].createdAt
    /\ \E c \in 1..Len(clars) :
         clars[c].workspace = req[p].ws /\ clars[c].task # req[p].task

\* C17: an update that carries only a status, sent by OWNER, ADMIN or the
\* assignee for a stored task of the project and workspace named, is
\* accepted whatever the status of the task and the status asked for, the
\* same status included, and its write leaves the task with the status
\* asked for.
C17_StatusUnconstrained ==
  [][\A p \in Procs :
       /\ (/\ Arrives(p)
           /\ req'[p].op = "update"
           /\ TaskFound(req'[p])
           /\ \/ Privileged(req'[p])
              \/ tasks[req'[p].task].assignedTo = req'[p].user
           /\ req'[p].body.status # Undef
           /\ OtherFields(req'[p]) = {})
          => (/\ req'[p].pc = "update_write"
              /\ req'[p].result = "-"
              /\ req'[p].payload.status = req'[p].body.status)
       /\ (/\ req[p].op = "update"
           /\ req[p].pc = "update_write"
           /\ req'[p].pc = "idle"
           /\ req[p].body.status # Undef
           /\ req[p].task \in DOMAIN tasks)
          => (/\ req'[p].result = "ok"
              /\ req[p].task \in DOMAIN tasks'
              /\ tasks'[req[p].task].status = req[p].body.status)]_vars

\* the assignee, a MEMBER, has set back to TODO a task that was created DONE
\* and not written since
C17_Witness ==
  \E p, q \in Procs :
    /\ req[q].op = "create"
    /\ req[q].result = "ok"
    /\ req[q].body.status = "DONE"
    /\ taskWrites = 2
    /\ taskCount = 1
    /\ req[p].op = "update"
    /\ Answered(req[p])
    /\ req[p].result = "ok"
    /\ req[p].task = req[q].task
    /\ members[req[p].ws][req[p].user] = "MEMBER"
    /\ req[p].body.status = "TODO"
    /\ tasks[req[p].task].status = "TODO"

\* C18: an update by OWNER or ADMIN for a stored task of the project and
\* workspace named is accepted with any of status, title, description,
\* priority, due date and assignee, unless the body is empty or names an
\* assignee who is no member of the workspace; its write stores every field
\* given, stores null as assignee for a null or an empty string, and stores
\* a user as assignee only if the user is a member of the workspace.
C18_PrivilegedFields ==
  [][\A p \in Procs :
       /\ (/\ Arrives(p)
           /\ req'[p].op = "update"
           /\ TaskFound(req'[p])
           /\ Privileged(req'[p])
           /\ \E f \in BodyFields : req'[p].body[f] # Undef
           /\ req'[p].body.assignedTo \in Users
                => members[req'[p].ws][req'[p].body.assignedTo] # "NONE")
          => (req'[p].pc = "update_write" /\ req'[p].result = "-")
       /\ (/\ req[p].op = "update"
           /\ req[p].pc = "update_write"
           /\ req'[p].pc = "idle"
           /\ Privileged(req[p])
           /\ req[p].task \in DOMAIN tasks)
          => (/\ req'[p].result = "ok"
              /\ req[p].task \in DOMAIN tasks'
              /\ \A f \in BodyFields \ {"assignedTo"} :
                   req[p].body[f] # Undef
                     => tasks'[req[p].task][f] = req[p].body[f]
              /\ req[p].body.assignedTo \in {Null, EmptyStr}
                   => tasks'[req[p].task].assignedTo = Null
              /\ req[p].body.assignedTo \in Users
                   => /\ tasks'[req[p].task].assignedTo = req[p].body.assignedTo
                      /\ members[req[p].ws][req[p].body.assignedTo] # "NONE")]_vars

\* an ADMIN has cleared the assignee of a task with an empty string
C18_Witness ==
  \E p \in Procs :
    /\ req[p].op = "update"
    /\ Answered(req[p])
    /\ req[p].result = "ok"
    /\ members[req[p].ws][req[p].user] = "ADMIN"
    /\ req[p].body.assignedTo = EmptyStr
    /\ req[p].task \in DOMAIN tasks
    /\ tasks[req[p].task].assignedTo = Null
    /\ tasks[req[p].task].createdBy = req[p].user

\* C19: a step in which a request is answered with an error (validation
\* failure, unauthorized, not-found, bad-request or the error of a create
\* for a non-member) changes no task and no clarification.
C19_ErrorsWriteNothing ==
  [][\A p \in Procs :
       (/\ req'[p] # req[p]
        /\ req'[p].pc = "idle"
        /\ req'[p].result \notin {"ok", "-"})
       => (tasks' = tasks /\ clars' = clars)]_vars

\* with a task and a clarification stored, an update of the OWNER that names
\* a non-member as assignee was answered bad-request
C19_Witness ==
  \E p \in Procs :
    /\ req[p].op = "update"
    /\ Answered(req[p])
    /\ req[p].result = "bad_request"
    /\ req[p].body.assignedTo \in Users
    /\ members[req[p].ws][req[p].body.assignedTo] = "NONE"
    /\ req[p].task \in DOMAIN tasks
    /\ clars # <<>>

\* task id t has been given to a task that is no longer stored
Deleted(t) == t \in 1..taskCount /\ t \notin DOMAIN tasks

\* C20: a deleted task is never stored again; a get, update or delete that
\* names a deleted task fails in its first step; and the write of an update
\* that read the task before it was deleted is answered bad-request and
\* stores nothing.
C20_DeleteIsFinal ==
  [][/\ \A t \in TaskIds : Deleted(t) => t \notin DOMAIN tasks'
     /\ \A p \in Procs :
          /\ (/\ Arrives(p)
              /\ req'[p].op \in {"get", "update", "delete"}
              /\ Deleted(req'[p].task))
             => (/\ req'[p].pc = "idle"
                 /\ req'[p].result \in {"not_found", "unauthorized",
                                        "validation"}
                 /\ tasks' = tasks)
          /\ (/\ req[p].pc = "update_write"
              /\ req'[p].pc = "idle"
              /\ Deleted(req[p].task))
             => (/\ req'[p].result = "bad_request"
                 /\ tasks' = tasks)]_vars

\* the update of one client read the task, the delete of the other client
\* removed it, and the write of the update was answered bad-request
C20_Witness ==
  \E p, q \in Procs :
    /\ req[q].op = "delete"
    /\ req[q].result = "ok"
    /\ req[p].op = "update"
    /\ Answered(req[p])
    /\ req[p].result = "bad_request"
    /\ req[p].task = req[q].task
    /\ req[p].payload.status # Undef
    /\ Deleted(req[p].task)

\* C21: the write of an update by a caller who is not OWNER or ADMIN changes
\* a task only if the caller is the assignee of the task when the write is
\* applied.
C21_StatusOnlyWhileAssignee ==
  [][\A p \in Procs :
       (/\ req[p].op = "update"
        /\ req[p].pc = "update_write"
        /\ req'[p].pc = "idle"
        /\ ~Privileged(req[p])
        /\ tasks' # tasks)
       => tasks[req[p].task].assignedTo = req[p].user]_vars

\* the first check of updateTaskService that request r fails on the store as
\* it is, in the order project, task, caller, fields, assignee, payload
FirstFailure(r) ==
  IF ~(r.project \in DOMAIN projects /\ projects[r.project] = r.ws)
  THEN "not_found"
  ELSE IF ~(r.task \in DOMAIN tasks /\ tasks[r.task].project = r.project)
  THEN "not_found"
  ELSE IF ~Privileged(r) /\ tasks[r.task].assignedTo # r.user
  THEN "unauthorized"
  ELSE IF ~Privileged(r) /\ OtherFields(r) # {}
  THEN "unauthorized"
  ELSE IF /\ Privileged(r)
          /\ r.body.assignedTo \in Users
          /\ members[r.ws][r.body.assignedTo] = "NONE"
  THEN "bad_request"
  ELSE IF \A f \in BodyFields : r.body[f] = Undef
  THEN "bad_request"
  ELSE "none"

\* C22: an update is answered with the error of the first check it fails, in
\* the order project (not-found), task (not-found), caller neither OWNER/ADMIN
\* nor assignee (unauthorized), field other than status from such a caller
\* (unauthorized), new assignee not a member (bad-request), empty update
\* (bad-request); it goes on to the write only if no check fails.
C22_FirstFailingCheck ==
  [][\A p \in Procs :
       (Arrives(p) /\ req'[p].op = "update")
       => IF FirstFailure(req'[p]) = "none"
          THEN req'[p].pc = "update_write"
          ELSE req'[p].pc = "idle" /\ req'[p].result = FirstFailure(req'[p])]_vars

\* a MEMBER who is not the assignee sent an empty body for a stored task of
\* the project and was answered unauthorized
C22_Witness ==
  \E p \in Procs :
    /\ req[p].op = "update"
    /\ Answered(req[p])
    /\ TaskFound(req[p])
    /\ ~Privileged(req[p])
    /\ tasks[req[p].task].assignedTo # req[p].user
    /\ req[p].body = EmptyBody
    /\ req[p].result = "unauthorized"

\* the value a task stores for field f of a body that defines it
StoredValue(f, v) == IF f = "assignedTo" /\ v = EmptyStr THEN Null ELSE v

DefinedFields(r) == {f \in BodyFields : r.body[f] # Undef}

\* C24: when the latest updates of two clients for the same task have both
\* succeeded and define disjoint sets of fields, the task carries the values
\* of both, in whatever order their reads and writes were interleaved.
C24_DisjointUpdatesBothApply ==
  \A p, q \in Procs :
    (/\ p # q
     /\ req[p].op = "update" /\ Answered(req[p]) /\ req[p].result = "ok"
     /\ req[q].op = "update" /\ Answered(req[q]) /\ req[q].result = "ok"
     /\ req[p].task = req[q].task
     /\ DefinedFields(req[p]) \cap DefinedFields(req[q]) = {})
    => \A f \in DefinedFields(req[p]) :
         tasks[req[p].task][f] = StoredValue(f, req[p].body[f])

\* the assignee's status and the OWNER's title were both written and the
\* task has both
C24_Witness ==
  /\ req["a"].op = "update" /\ Answered(req["a"]) /\ req["a"].result = "ok"
  /\ req["b"].op = "update" /\ Answered(req["b"]) /\ req["b"].result = "ok"
  /\ req["a"].body = Body([status |-> "DONE"])
  /\ req["b"].body = Body([title |-> "t1"])
  /\ tasks[1].status = "DONE"
  /\ tasks[1].title = "t1"

\* C25: a submission of the edit form by a user who is neither OWNER/ADMIN nor
\* the assignee sends nothing; an assignee who is not OWNER/ADMIN sends a body
\* with the status alone; the other fields are sent only for OWNER/ADMIN, the
\* assignee as a member of the workspace or null; and no request the form
\* sends is answered unauthorized.
C25_FormAgreesWithServer ==
  [][\A p \in Procs :
       Arrives(p)
       => (/\ (~Privileged(req'[p])
               /\ tasks[req'[p].task].assignedTo # req'[p].user)
              => req'[p].result = "not_sent"
           /\ (~Privileged(req'[p])
               /\ tasks[req'[p].task].assignedTo = req'[p].user)
              => (/\ req'[p].op = "update"
                  /\ DefinedFields(req'[p]) = {"status"})
           /\ Privileged(req'[p])
              => (/\ req'[p].op = "update"
                  /\ DefinedFields(req'[p]) = BodyFields
                  /\ \/ req'[p].body.assignedTo = Null
                     \/ /\ req'[p].body.assignedTo \in Users
                        /\ members[req'[p].ws][req'[p].body.assignedTo] # "NONE")
           /\ req'[p].op = "update"
              => (/\ req'[p].result # "unauthorized"
                  /\ req'[p].pc = "update_write"))]_vars

\* the assignee, a MEMBER, submitted the form and the status it sent was
\* written
C25_Witness ==
  \E p \in Procs :
    /\ req[p].op = "update"
    /\ Answered(req[p])
    /\ req[p].result = "ok"
    /\ ~Privileged(req[p])
    /\ DefinedFields(req[p]) = {"status"}
    /\ tasks[req[p].task].status = "DONE"

\* C26: while a response to a clarification is in flight its card is marked
\* submitting (isSubmittingResponse and activeResponseId is that
\* clarification), whatever other responses are started or settle meanwhile.
C26_InFlightCardSubmitting ==
  \A m \in ui.inFlight :
    /\ \E n \in ui.inFlight : n.id = ui.mutations
    /\ ui.activeResponseId = m.clarificationId

\* the pageSize or pageNumber parameter x is absent, holds no number, or
\* holds zero
NoPositiveNumber(x) ==
  \/ ~x.given
  \/ x.chars \in {<<>>, <<"a", "b", "c">>, <<"0">>}

\* C27: whatever the pageSize and pageNumber parameters hold, a listing runs
\* with pageSize >= 1 and pageNumber >= 1, so that its skip and its
\* totalPages are not negative; absent, non-numeric and zero parameters give
\* pageSize 10 and pageNumber 1.
C27_PaginationPositive ==
  /\ \A x \in PageParams :
       NoPositiveNumber(x)
       => (/\ paginationOf(x, x).pageSize = 10
           /\ paginationOf(x, x).pageNumber = 1)
  /\ [][\A p \in Procs :
          (Arrives(p) /\ req'[p].op = "list")
          => (/\ req'[p].pagination.pageSize >= 1
              /\ req'[p].pagination.pageNumber >= 1
              /\ (req'[p].pagination.pageNumber - 1)
                   * req'[p].pagination.pageSize >= 0
              /\ req'[p].ret.skip >= 0
              /\ req'[p].ret.totalPages >= 0)]_vars

====
